---- MODULE Spec2Model ----
(***************************************************************************)
(* drawille: a canvas of Braille cells (src/src/canvas.rs) and the turtle  *)
(* that draws lines on it (src/src/turtle.rs).                             *)
(*                                                                         *)
(* A Canvas value is a record [chars, width, height]; chars is the sparse  *)
(* map of the source, a function whose DOMAIN is the set of keys present.  *)
(* A key is a pair of u16, a cell is <<mask, char>> with mask a u8 and     *)
(* char a Unicode code point.  Pixel coordinates are u32; the model draws  *)
(* them from small sets that reach above 2^17, so that the casts to u16    *)
(* act.  Strings are sequences of code points.                             *)
(***************************************************************************)
EXTENDS Integers, Sequences, FiniteSets, TLC

VARIABLES cvs, x, y, brush, rotation,   \* the fields of Turtle; cvs is the Canvas
          touched,                      \* keys written since construction or the last clear
          last, prev,                   \* the last two calls, each with the state it started from
          steps,                        \* number of calls made
          overflowChecks,               \* build profile: arithmetic overflow panics (debug) or wraps (release)
          panicked                      \* a call has panicked: the program is gone

vars == <<cvs, x, y, brush, rotation, touched, last, prev, steps, overflowChecks, panicked>>

\* ---------------------------------------------------------------- bounds

MaxOps == 3

\* ------------------------------------------------------------- constants

U16 == 65536
Space == 32
Newline == 10
Braille == 10240

PIXEL_MAP == << <<1, 8>>, <<2, 16>>, <<4, 32>>, <<64, 128>> >>

\* ------------------------------------------------------------ bit helpers

Max(a, b) == IF a >= b THEN a ELSE b
Min(a, b) == IF a <= b THEN a ELSE b

\* mask & bit != 0, for a bit of PIXEL_MAP (a power of two)
HasBit(mask, bit) == (mask \div bit) % 2 = 1
\* mask | bit
BitOr(mask, bit) == IF HasBit(mask, bit) THEN mask ELSE mask + bit
\* mask & !bit
BitClear(mask, bit) == IF HasBit(mask, bit) THEN mask - bit ELSE mask
\* mask ^ bit
BitXor(mask, bit) == IF HasBit(mask, bit) THEN mask - bit ELSE mask + bit

\* ---------------------------------------------------------------- Canvas

\* ((x / 2) as u16, (y / 4) as u16)
Key(px, py) == <<(px \div 2) % U16, (py \div 4) % U16>>

\* PIXEL_MAP[y as usize % 4][x as usize % 2]
Dot(px, py) == PIXEL_MAP[(py % 4) + 1][(px % 2) + 1]

\* the cell entry((row, col)).or_insert((0, ' ')) yields
Entry(chars, k) == IF k \in DOMAIN chars THEN chars[k] ELSE <<0, Space>>

\* the map with the entry at k (inserted when absent) holding cell
Store(chars, k, cell) ==
    IF k \in DOMAIN chars THEN [chars EXCEPT ![k] = cell] ELSE chars @@ (k :> cell)

new(w, h) == [chars |-> <<>>, width |-> (w \div 2) % U16, height |-> (h \div 4) % U16]

clear_zeroes_cells(c) == [c EXCEPT !.chars = [k \in DOMAIN c.chars |-> <<0, Space>>]]

clear(c) == [c EXCEPT !.chars = <<>>]

set_keeps_char(c, px, py) ==
    LET k == Key(px, py)
        a == Entry(c.chars, k)
    IN  [c EXCEPT !.chars = Store(c.chars, k, <<BitOr(a[1], Dot(px, py)), a[2]>>)]

set(c, px, py) ==
    LET k == Key(px, py)
        a == Entry(c.chars, k)
    IN  [c EXCEPT !.chars = Store(c.chars, k, <<BitOr(a[1], Dot(px, py)), Space>>)]

set_char(c, px, py, ch) ==
    [c EXCEPT !.chars = Store(c.chars, Key(px, py), <<0, ch>>)]

unset_present_only(c, px, py) ==
    LET k == Key(px, py)
    IN  IF k \in DOMAIN c.chars
        THEN [c EXCEPT !.chars[k] = <<BitClear(@[1], Dot(px, py)), @[2]>>]
        ELSE c

unset(c, px, py) ==
    LET k == Key(px, py)
        a == Entry(c.chars, k)
    IN  [c EXCEPT !.chars = Store(c.chars, k, <<BitClear(a[1], Dot(px, py)), a[2]>>)]

toggle_or(c, px, py) ==
    LET k == Key(px, py)
        a == Entry(c.chars, k)
    IN  [c EXCEPT !.chars = Store(c.chars, k, <<BitOr(a[1], Dot(px, py)), a[2]>>)]

toggle(c, px, py) ==
    LET k == Key(px, py)
        a == Entry(c.chars, k)
    IN  [c EXCEPT !.chars = Store(c.chars, k, <<BitXor(a[1], Dot(px, py)), a[2]>>)]

get(c, px, py) ==
    LET k == Key(px, py)
    IN  IF k \in DOMAIN c.chars THEN HasBit(c.chars[k][1], Dot(px, py)) ELSE FALSE

\* the largest of floor and the values of S
MaxOver(floor, S) == CHOOSE m \in S \cup {floor} : \A n \in S \cup {floor} : n <= m

rows_exclusive(c) ==
    LET maxrow == MaxOver(c.width, {k[1] : k \in DOMAIN c.chars})
        maxcol == MaxOver(c.height, {k[2] : k \in DOMAIN c.chars})
    IN  [cy \in 1..maxcol |->
            [cx \in 1..maxrow |->
                LET cell == Entry(c.chars, <<cx - 1, cy - 1>>)
                IN  IF cell[1] = 0 THEN cell[2] ELSE Braille + cell[1]]]

rows(c) ==
    LET maxrow == MaxOver(c.width, {k[1] : k \in DOMAIN c.chars})
        maxcol == MaxOver(c.height, {k[2] : k \in DOMAIN c.chars})
    IN  [cy \in 1..(maxcol + 1) |->
            [cx \in 1..(maxrow + 1) |->
                LET cell == Entry(c.chars, <<cx - 1, cy - 1>>)
                IN  IF cell[1] = 0 THEN cell[2] ELSE Braille + cell[1]]]

RECURSIVE join(_, _)
join(rs, sep) ==
    IF Len(rs) = 0 THEN <<>>
    ELSE IF Len(rs) = 1 THEN rs[1]
    ELSE rs[1] \o <<sep>> \o join(Tail(rs), sep)

frame(c) == join(rows(c), Newline)

\* the set_char calls of text's loop, in order, from character index i on
RECURSIVE text_stops_early(_, _, _, _, _)
text_stops_early(px, py, max_width, s, i) ==
    IF i >= Len(s) THEN <<>>
    ELSE LET w == i * 2
         IN  IF w >= max_width THEN <<>>
             ELSE <<<<px + w, py, s[i + 1]>>>> \o text_stops_early(px, py, max_width, s, i + 1)

RECURSIVE text_calls(_, _, _, _, _)
text_calls(px, py, max_width, s, i) ==
    IF i >= Len(s) THEN <<>>
    ELSE LET w == i * 2
         IN  IF w > max_width THEN <<>>
             ELSE <<<<px + w, py, s[i + 1]>>>> \o text_calls(px, py, max_width, s, i + 1)

RECURSIVE set_chars(_, _)
set_chars(c, calls) ==
    IF calls = <<>> THEN c
    ELSE set_chars(set_char(c, calls[1][1], calls[1][2], calls[1][3]), Tail(calls))

text(c, px, py, max_width, s) == set_chars(c, text_calls(px, py, max_width, s, 0))

\* ------------------------------------------------- u32 arithmetic of line
\* TLC's integers are 32-bit signed, so a u32 product is computed in base-256
\* digits.  For a < 2^31 and b < 2^23, MulParts(a, b) is <<hi, d3, d2, d1, d0>>
\* with a * b = hi * 2^32 + d3 * 2^24 + d2 * 2^16 + d1 * 2^8 + d0.
MulParts(a, b) ==
    LET t0 == (a % 256) * b
        t1 == ((a \div 256) % 256) * b + t0 \div 256
        t2 == ((a \div 65536) % 256) * b + t1 \div 256
        t3 == (a \div 16777216) * b + t2 \div 256
    IN  <<t3 \div 256, t3 % 256, t2 % 256, t1 % 256, t0 % 256>>

\* (rem * 2^32 + the u32 with digits p[2..5]) / r by long division, for rem < r <= 2^23
DivParts(rem, p, r) ==
    LET c3 == rem * 256 + p[2]
        c2 == (c3 % r) * 256 + p[3]
        c1 == (c2 % r) * 256 + p[4]
        c0 == (c1 % r) * 256 + p[5]
    IN  (((c3 \div r) * 256 + c2 \div r) * 256 + c1 \div r) * 256 + c0 \div r

\* i * diff overflows u32
MulOverflows(i, diff) == MulParts(i, diff)[1] > 0

\* (i * diff) / r in u32 arithmetic, the product wrapping modulo 2^32
MulDiv(i, diff, r) == DivParts(0, MulParts(i, diff), r)

\* ------------------------------------------------------------------ line

line_diff(x1, x2) == Max(x1, x2) - Min(x1, x2)
line_dir(a1, a2) == IF a1 <= a2 THEN 1 ELSE -1

\* the pixel the loop body of line passes to set at index i
line_point(x1, y1, x2, y2, i) ==
    LET xdiff == line_diff(x1, x2)
        ydiff == line_diff(y1, y2)
        r == Max(xdiff, ydiff)
    IN  << IF xdiff # 0 THEN x1 + MulDiv(i, xdiff, r) * line_dir(x1, x2) ELSE x1,
           IF ydiff # 0 THEN y1 + MulDiv(i, ydiff, r) * line_dir(y1, y2) ELSE y1 >>

\* the least i for which i * diff overflows u32, i.e. i * diff >= 2^32 (diff > 2)
FirstOverflow(diff) == DivParts(0, <<0, 255, 255, 255, 255>>, diff) + 1

line_iterations_exclusive(x1, y1, x2, y2, checks) ==
    Max(line_diff(x1, x2), line_diff(y1, y2))

\* the number of loop iterations line completes: all r + 1 of them, or, in a
\* build that checks overflow, those before the first overflowing multiplication
line_iterations(x1, y1, x2, y2, checks) ==
    LET xdiff == line_diff(x1, x2)
        ydiff == line_diff(y1, y2)
        r == Max(xdiff, ydiff)
        stop == Min(IF xdiff # 0 /\ MulOverflows(r, xdiff) THEN FirstOverflow(xdiff) ELSE r + 1,
                    IF ydiff # 0 /\ MulOverflows(r, ydiff) THEN FirstOverflow(ydiff) ELSE r + 1)
    IN  IF checks THEN Min(stop, r + 1) ELSE r + 1

\* line panics: the build checks overflow and some multiplication overflows
line_panics(x1, y1, x2, y2, checks) ==
    line_iterations(x1, y1, x2, y2, checks) < Max(line_diff(x1, x2), line_diff(y1, y2)) + 1

\* the pixels line passes to set, in order
line_calls(x1, y1, x2, y2, checks) ==
    [j \in 1..line_iterations(x1, y1, x2, y2, checks) |-> line_point(x1, y1, x2, y2, j - 1)]

\* set applied to calls[lo..hi] in order (halving keeps the evaluation shallow;
\* the first half is evaluated before the second starts)
RECURSIVE sets(_, _, _, _)
sets(c, calls, lo, hi) ==
    IF lo > hi THEN c
    ELSE IF lo = hi THEN set(c, calls[lo][1], calls[lo][2])
    ELSE LET mid == (lo + hi) \div 2
             half == sets(c, calls, lo, mid)
         IN  IF DOMAIN half.chars = {} THEN half ELSE sets(half, calls, mid + 1, hi)

line(c, x1, y1, x2, y2, checks) ==
    LET calls == line_calls(x1, y1, x2, y2, checks)
    IN  sets(c, calls, 1, Len(calls))

\* ---------------------------------------------------------------- Turtle
\* The f32 fields x and y hold multiples of 1/2, stored as the number of
\* halves (x = 3 is 1.5): exactly representable, and enough for rounding to
\* act.  rotation holds whole degrees.

\* f32::round, to the nearest integer, halves away from zero
round(h) == IF h >= 0 THEN (h + 1) \div 2 ELSE -((1 - h) \div 2)

\* cmp::max(0, h.round() as i32) as u32
pixel(h) == Max(0, round(h))

Self == [cvs |-> cvs, x |-> x, y |-> y, brush |-> brush, rotation |-> rotation,
         touched |-> touched]

\* Turtle::width(w).height(h) on a fresh turtle's canvas
sized(c, w, h) == [c EXCEPT !.width = w % U16, !.height = h % U16]

teleport_always_draws(t, tx, ty, checks) ==
    [t EXCEPT !.cvs = line(t.cvs, pixel(t.x), pixel(t.y), pixel(tx), pixel(ty), checks),
              !.x = tx, !.y = ty]

teleport(t, tx, ty, checks) ==
    [t EXCEPT !.cvs = IF t.brush
                      THEN line(t.cvs, pixel(t.x), pixel(t.y), pixel(tx), pixel(ty), checks)
                      ELSE t.cvs,
              !.x = tx, !.y = ty]

\* forward with the turtle facing right (rotation 0): cos is 1 and sin is 0,
\* so the target is (x + dist, y) exactly
forward(t, dist, checks) == teleport(t, t.x + dist, t.y, checks)

back(t, dist, checks) == forward(t, 0 - dist, checks)

\* ---------------------------------------------------------------- inputs

NewSizes == {<<0, 0>>, <<4, 4>>}
LineSizes == {<<0, 0>>, <<10, 10>>}
PixelXs == {0, 7, 131072}
PixelYs == {1, 262145, 262153}
Letters == {65}
Strings == {<<>>, <<65>>, <<65, 66>>, <<65, 66, 67>>}
Widths == 0..4
TextXs == {7}
TextYs == {1}
LineEnds == {<<2, 2>>, <<8, 8>>, <<5, 4>>, <<8, 2>>}
LongLines == {<<0, 0, 0, 65536>>}
TurtleSizes == {<<0, 0>>, <<3, 1>>}
Starts == {<<0, 0>>, <<-3, 5>>}
Halves == {-3, 1, 5}
Dists == {3}
Angles == {90}

\* ----------------------------------------------------------- the program

NoCall == [op |-> "none", args |-> <<>>, calls |-> <<>>]

Start(c, x0, y0) ==
    /\ cvs = c
    /\ x = x0 /\ y = y0 /\ brush = TRUE /\ rotation = 0
    /\ touched = {}
    /\ steps = 0
    /\ panicked = FALSE
    /\ last = [NoCall EXCEPT !.op = "new"] @@ [before |-> Self]
    /\ prev = last

\* Canvas::new(w, h), used directly
Init ==
    /\ overflowChecks \in BOOLEAN
    /\ \E size \in NewSizes : Start(new(size[1], size[2]), 0, 0)

\* one call: it is recorded with the state it started from
Call(op, args, calls) ==
    /\ steps < MaxOps
    /\ ~panicked
    /\ steps' = steps + 1
    /\ prev' = last
    /\ last' = [op |-> op, args |-> args, calls |-> calls, before |-> Self]
    /\ UNCHANGED overflowChecks

Clear ==
    /\ Call("clear", <<>>, <<>>)
    /\ cvs' = clear(cvs)
    /\ touched' = {}
    /\ UNCHANGED <<x, y, brush, rotation, panicked>>

SetAt(px, py) ==
    /\ Call("set", <<px, py>>, <<>>)
    /\ cvs' = set(cvs, px, py)
    /\ touched' = touched \cup {Key(px, py)}
    /\ UNCHANGED <<x, y, brush, rotation, panicked>>

Set == \E px \in PixelXs, py \in PixelYs : SetAt(px, py)

\* set on the pixels that the lines of Line end on
SetEnd == \E p \in LineEnds : SetAt(p[1], p[2])

SetChar ==
    \E px \in PixelXs, py \in PixelYs, ch \in Letters :
        /\ Call("set_char", <<px, py, ch>>, <<>>)
        /\ cvs' = set_char(cvs, px, py, ch)
        /\ touched' = touched \cup {Key(px, py)}
        /\ UNCHANGED <<x, y, brush, rotation, panicked>>

Unset ==
    \E px \in PixelXs, py \in PixelYs :
        /\ Call("unset", <<px, py>>, <<>>)
        /\ cvs' = unset(cvs, px, py)
        /\ touched' = touched \cup {Key(px, py)}
        /\ UNCHANGED <<x, y, brush, rotation, panicked>>

Toggle ==
    \E px \in PixelXs, py \in PixelYs :
        /\ Call("toggle", <<px, py>>, <<>>)
        /\ cvs' = toggle(cvs, px, py)
        /\ touched' = touched \cup {Key(px, py)}
        /\ UNCHANGED <<x, y, brush, rotation, panicked>>

Text ==
    \E px \in TextXs, py \in TextYs, mw \in Widths, s \in Strings :
        LET calls == text_calls(px, py, mw, s, 0)
        IN  /\ Call("text", <<px, py, mw, s>>, calls)
            /\ cvs' = text(cvs, px, py, mw, s)
            /\ touched' = touched \cup {Key(c[1], c[2]) : c \in {calls[i] : i \in 1..Len(calls)}}
            /\ UNCHANGED <<x, y, brush, rotation, panicked>>

LineTo(x1, y1, x2, y2) ==
    LET calls == line_calls(x1, y1, x2, y2, overflowChecks)
    IN  /\ Call("line", <<x1, y1, x2, y2>>, calls)
        /\ cvs' = line(cvs, x1, y1, x2, y2, overflowChecks)
        /\ panicked' = line_panics(x1, y1, x2, y2, overflowChecks)
        /\ touched' = touched \cup {Key(calls[i][1], calls[i][2]) : i \in 1..Len(calls)}
        /\ UNCHANGED <<x, y, brush, rotation>>

Line == \E p \in LineEnds, q \in LineEnds : LineTo(p[1], p[2], q[1], q[2])

\* lines longer than 2^16 pixels, drawn on a fresh canvas
LineLong == \E e \in LongLines : steps = 0 /\ LineTo(e[1], e[2], e[3], e[4])

Next == Set \/ Unset \/ Toggle \/ SetChar \/ Clear

Spec == Init /\ [][Next]_vars

NextText == Text \/ Set

SpecText == Init /\ [][NextText]_vars

InitLine ==
    /\ overflowChecks \in BOOLEAN
    /\ \E size \in LineSizes : Start(new(size[1], size[2]), 0, 0)

NextLine == SetEnd \/ Line

SpecLine == InitLine /\ [][NextLine]_vars

NextLineLong == SetEnd \/ Line \/ LineLong

SpecLineLong == InitLine /\ [][NextLineLong]_vars

\* Turtle::new(x, y), then width(w) and height(h)
InitTurtle ==
    /\ overflowChecks \in BOOLEAN
    /\ \E size \in TurtleSizes, at \in Starts :
        Start(sized(new(0, 0), size[1], size[2]), at[1], at[2])

Up ==
    /\ Call("up", <<>>, <<>>)
    /\ brush' = FALSE
    /\ UNCHANGED <<cvs, x, y, rotation, touched, panicked>>

Down ==
    /\ Call("down", <<>>, <<>>)
    /\ brush' = TRUE
    /\ UNCHANGED <<cvs, x, y, rotation, touched, panicked>>

PenToggle ==
    /\ Call("pen_toggle", <<>>, <<>>)
    /\ brush' = ~brush
    /\ UNCHANGED <<cvs, x, y, rotation, touched, panicked>>

Right ==
    \E angle \in Angles :
        /\ Call("right", <<angle>>, <<>>)
        /\ rotation' = rotation + angle
        /\ UNCHANGED <<cvs, x, y, brush, touched, panicked>>

Left ==
    \E angle \in Angles :
        /\ Call("left", <<angle>>, <<>>)
        /\ rotation' = rotation - angle
        /\ UNCHANGED <<cvs, x, y, brush, touched, panicked>>

\* the turtle becomes t; drawn is whether the move called line, from the old to the new position
Move(op, args, t, drawn) ==
    LET calls == IF drawn
                 THEN line_calls(pixel(x), pixel(y), pixel(t.x), pixel(t.y), overflowChecks)
                 ELSE <<>>
    IN  /\ Call(op, args, calls)
        /\ cvs' = t.cvs /\ x' = t.x /\ y' = t.y
        /\ panicked' = (drawn /\ line_panics(pixel(x), pixel(y), pixel(t.x), pixel(t.y), overflowChecks))
        /\ touched' = touched \cup {Key(calls[i][1], calls[i][2]) : i \in 1..Len(calls)}
        /\ UNCHANGED <<brush, rotation>>

Teleport ==
    \E tx \in Halves, ty \in Halves :
        Move("teleport", <<tx, ty>>, teleport(Self, tx, ty, overflowChecks), brush)

Forward ==
    \E dist \in Dists :
        rotation = 0 /\ Move("forward", <<dist>>, forward(Self, dist, overflowChecks), brush)

Back ==
    \E dist \in Dists :
        rotation = 0 /\ Move("back", <<dist>>, back(Self, dist, overflowChecks), brush)

NextTurtle == Up \/ Down \/ PenToggle \/ Right \/ Left \/ Teleport \/ Forward \/ Back

SpecTurtle == InitTurtle /\ [][NextTurtle]_vars

\* ================================================================ claims

Pixels == PixelXs \X PixelYs

\* the largest coordinate (axis 1 or 2) among the touched keys, or floor if there is none
MaxTouched(axis, floor) == MaxOver(floor, {k[axis] : k \in touched})

\* ---- C1: set then get is true, unset then get is false, and two toggles of a
\* pixel leave get of that pixel as it was before them.
C1_SetUnsetToggleGet ==
    /\ last.op = "set" => get(cvs, last.args[1], last.args[2])
    /\ last.op = "unset" => ~get(cvs, last.args[1], last.args[2])
    /\ (last.op = "toggle" /\ prev.op = "toggle" /\ last.args = prev.args)
          => (get(cvs, last.args[1], last.args[2])
                = get(prev.before.cvs, last.args[1], last.args[2]))

\* a pixel that was set is toggled twice and reads as set again
C1_Witness ==
    /\ last.op = "toggle" /\ prev.op = "toggle" /\ last.args = prev.args
    /\ get(prev.before.cvs, last.args[1], last.args[2])
    /\ ~get(last.before.cvs, last.args[1], last.args[2])
    /\ get(cvs, last.args[1], last.args[2])

\* ---- C2: set(x, y) leaves get(x', y') unchanged for every pixel (x', y') in
\* another cell (x'/2, y'/4) or at another bit position (x' mod 2, y' mod 4),
\* the cells compared as the full unsigned integers.
C2_SetLeavesOtherPixels ==
    last.op = "set" =>
        \A p \in Pixels :
            (\/ <<p[1] \div 2, p[2] \div 4>> # <<last.args[1] \div 2, last.args[2] \div 4>>
             \/ <<p[1] % 2, p[2] % 4>> # <<last.args[1] % 2, last.args[2] % 4>>)
                => (get(cvs, p[1], p[2]) = get(last.before.cvs, p[1], p[2]))

\* ---- C3: after clear, get is false at every pixel, the declared width and
\* height are as before, and rows is a grid of spaces, height + 1 rows of
\* width + 1 characters.
C3_ClearBlanks ==
    last.op = "clear" =>
        /\ \A p \in Pixels : ~get(cvs, p[1], p[2])
        /\ cvs.width = last.before.cvs.width
        /\ cvs.height = last.before.cvs.height
        /\ rows(cvs) = [cy \in 1..(cvs.height + 1) |-> [cx \in 1..(cvs.width + 1) |-> Space]]

\* a canvas with a set pixel and cells beyond the declared size is cleared
C3_Witness ==
    /\ last.op = "clear"
    /\ \E p \in Pixels : get(last.before.cvs, p[1], p[2])
    /\ \E k \in DOMAIN last.before.cvs.chars : k[1] > cvs.width \/ k[2] > cvs.height

\* ---- C4: after set_char on a cell and then set on a pixel of that cell, the
\* cell holds the single dot of that pixel and the override character is a
\* space again; rows renders the cell as the glyph U+2800 + dot, not as c.
C4_DotWinsOverChar ==
    (last.op = "set" /\ prev.op = "set_char"
        /\ Key(last.args[1], last.args[2]) = Key(prev.args[1], prev.args[2]))
    => LET k == Key(last.args[1], last.args[2])
           dot == Dot(last.args[1], last.args[2])
       IN  /\ k \in DOMAIN cvs.chars
           /\ cvs.chars[k] = <<dot, Space>>
           /\ rows(cvs)[k[2] + 1][k[1] + 1] = Braille + dot
           /\ rows(cvs)[k[2] + 1][k[1] + 1] # prev.args[3]

\* the cell had dots before the character replaced them
C4_Witness ==
    /\ last.op = "set" /\ prev.op = "set_char"
    /\ Key(last.args[1], last.args[2]) = Key(prev.args[1], prev.args[2])
    /\ Entry(prev.before.cvs.chars, Key(prev.args[1], prev.args[2]))[1] # 0
    /\ last.before.cvs.chars[Key(prev.args[1], prev.args[2])] = <<0, prev.args[3]>>

\* ---- C7: rows returns max(height, largest touched cell y) + 1 strings, each
\* of max(width, largest touched cell x) + 1 characters; a touched cell counts
\* whatever it holds, and with no cell touched that is height + 1 by width + 1.
C7_RowsExtent ==
    LET r == rows(cvs)
    IN  /\ Len(r) = MaxTouched(2, cvs.height) + 1
        /\ \A i \in 1..Len(r) : Len(r[i]) = MaxTouched(1, cvs.width) + 1
        /\ touched = {} =>
              /\ Len(r) = cvs.height + 1
              /\ \A i \in 1..Len(r) : Len(r[i]) = cvs.width + 1

\* a cell that holds no dot and a space lies beyond the declared size and widens the rows
C7_Witness ==
    \E k \in touched :
        /\ k \in DOMAIN cvs.chars
        /\ cvs.chars[k] = <<0, Space>>
        /\ k[1] > cvs.width /\ k[2] > cvs.height
        /\ \A j \in touched : j[1] <= k[1] /\ j[2] <= k[2]
        /\ Len(rows(cvs)) = k[2] + 1
        /\ Len(rows(cvs)[1]) = k[1] + 1

\* ---- C8 as stated: the box of rows is max(declared dimension, largest touched
\* cell coordinate + 1) in both axes (stated for a canvas with a touched cell).
C8_BoxAsStated ==
    touched # {} =>
        LET r == rows(cvs)
        IN  /\ Len(r) = Max(cvs.height, MaxTouched(2, 0) + 1)
            /\ \A i \in 1..Len(r) : Len(r[i]) = Max(cvs.width, MaxTouched(1, 0) + 1)

\* ---- C8 amended: the box of rows is max(declared dimension, largest touched
\* cell coordinate) + 1 in both axes: it holds the declared dimension + 1 and
\* every touched coordinate + 1, and is no larger than the largest of these.
C8_BoxAmended ==
    LET r == rows(cvs)
        cols == Len(r[1])
    IN  /\ Len(r) >= cvs.height + 1
        /\ \A k \in touched : Len(r) >= k[2] + 1
        /\ Len(r) = cvs.height + 1 \/ \E k \in touched : Len(r) = k[2] + 1
        /\ \A i \in 1..Len(r) : Len(r[i]) = cols
        /\ cols >= cvs.width + 1
        /\ \A k \in touched : cols >= k[1] + 1
        /\ cols = cvs.width + 1 \/ \E k \in touched : cols = k[1] + 1

\* every touched cell lies inside the declared size, where the two statements differ
C8_Witness ==
    /\ touched # {}
    /\ \A k \in touched : k[1] < cvs.width /\ k[2] < cvs.height
    /\ Len(rows(cvs)) = cvs.height + 1
    /\ Len(rows(cvs)[1]) = cvs.width + 1

\* ---- C5: text(x, y, max_width, s) calls set_char for the character with index
\* i, at (x + 2 i, y), exactly when 2 i <= max_width: the placed characters'
\* cells hold them, and the cells of the others are as they were.
C5_TextPlacement ==
    last.op = "text" =>
        LET px == last.args[1]
            py == last.args[2]
            mw == last.args[3]
            s == last.args[4]
            placed == {i \in 0..(Len(s) - 1) : 2 * i <= mw}
            old == last.before.cvs.chars
        IN  /\ Len(last.calls) = Cardinality(placed)
            /\ \A i \in placed : last.calls[i + 1] = <<px + 2 * i, py, s[i + 1]>>
            /\ \A i \in placed :
                  /\ Key(px + 2 * i, py) \in DOMAIN cvs.chars
                  /\ cvs.chars[Key(px + 2 * i, py)] = <<0, s[i + 1]>>
            /\ \A i \in (0..(Len(s) - 1)) \ placed :
                  /\ Key(px + 2 * i, py) \in DOMAIN cvs.chars
                        <=> Key(px + 2 * i, py) \in DOMAIN old
                  /\ Entry(cvs.chars, Key(px + 2 * i, py)) = Entry(old, Key(px + 2 * i, py))

\* text(x, y, 2, "AB") has placed 'A' and 'B'; before it text(x, y, 1, "AB") placed only 'A'
C5_Witness ==
    /\ last.op = "text" /\ last.args[3] = 2 /\ last.args[4] = <<65, 66>>
    /\ Len(last.calls) = 2
    /\ cvs.chars[Key(last.args[1] + 2, last.args[2])] = <<0, 66>>
    /\ prev.op = "text" /\ prev.args[3] = 1 /\ prev.args[4] = <<65, 66>>
    /\ Len(prev.calls) = 1
    /\ Key(prev.args[1] + 2, prev.args[2]) \notin DOMAIN last.before.cvs.chars

\* ---- C6: Canvas::new(10, 10), set(5, 4), line(2, 2, 8, 8): frame is three rows
\* of six characters joined by newlines, U+2884 at row 0 column 1, U+2819 and
\* U+2884 at row 1 columns 2 and 3, U+2801 at row 2 column 4, spaces elsewhere.
Doctest ==
    /\ steps = 2
    /\ prev.op = "set" /\ prev.args = <<5, 4>>
    /\ prev.before.cvs = new(10, 10)
    /\ last.op = "line" /\ last.args = <<2, 2, 8, 8>>

C6_DoctestFrame ==
    Doctest =>
        frame(cvs) = <<Space, Braille + 132, Space, Space, Space, Space, Newline,
                       Space, Space, Braille + 25, Braille + 132, Space, Space, Newline,
                       Space, Space, Space, Space, Braille + 1, Space>>

C6_Witness == Doctest /\ ~panicked /\ Len(rows(cvs)) = 3

\* ---- C9: teleport(x, y) leaves the canvas alone with the pen up and, with the
\* pen down, draws the canvas's line between the old and the new position, each
\* coordinate rounded to a nearest integer and raised to 0 when negative; the
\* position becomes (x, y) as given, pen and heading stay.
Nearest(h) == {Max(0, n) : n \in {m \in (h \div 2 - 1)..(h \div 2 + 1) : 2 * m - h <= 1 /\ h - 2 * m <= 1}}

C9_Teleport ==
    last.op = "teleport" =>
        LET old == last.before
        IN  /\ x = last.args[1] /\ y = last.args[2]
            /\ brush = old.brush /\ rotation = old.rotation
            /\ ~old.brush => cvs = old.cvs
            /\ old.brush =>
                  \E x1 \in Nearest(old.x), y1 \in Nearest(old.y),
                     x2 \in Nearest(x), y2 \in Nearest(y) :
                        cvs = line(old.cvs, x1, y1, x2, y2, overflowChecks)

\* with the pen up the turtle goes to a negative position over a canvas it drew on before
C9_Witness ==
    /\ last.op = "teleport" /\ ~last.before.brush
    /\ x < 0
    /\ cvs.chars # <<>>
    /\ prev.op = "up" /\ prev.before.brush

\* ---- C10: line(x1, y1, x2, y2) calls set on exactly the pixels
\* (x1 + trunc(i dx / steps) sign, y1 + trunc(i dy / steps) sign), i = 0..steps,
\* so both end points are set.
\* i * diff / r, exactly
ExactMulDiv(i, diff, r) == DivParts(MulParts(i, diff)[1], MulParts(i, diff), r)

LinePixels(x1, y1, x2, y2) ==
    LET dx == Max(x1, x2) - Min(x1, x2)
        dy == Max(y1, y2) - Min(y1, y2)
        n == Max(dx, dy)
    IN  { << IF dx = 0 THEN x1 ELSE x1 + ExactMulDiv(i, dx, n) * (IF x2 >= x1 THEN 1 ELSE -1),
             IF dy = 0 THEN y1 ELSE y1 + ExactMulDiv(i, dy, n) * (IF y2 >= y1 THEN 1 ELSE -1) >>
          : i \in 0..n }

C10_LinePixels ==
    last.op = "line" =>
        /\ {last.calls[i] : i \in 1..Len(last.calls)}
              = LinePixels(last.args[1], last.args[2], last.args[3], last.args[4])
        /\ get(cvs, last.args[1], last.args[2])
        /\ get(cvs, last.args[3], last.args[4])

====
